---- MODULE Spec2Model ----
(***************************************************************************)
(* Composite credential rotation of the db-edit command:                  *)
(* DatabaseEdit::executeWithDatabase and DatabaseEdit::getNewDatabaseKey  *)
(* (src/src/gui/wizard/NewDatabaseWizard.cpp, lines 132-260).             *)
(*                                                                         *)
(* A key (factor) is a record [kind, id]: kind is the value of            *)
(* key->uuid(), id is the identity of the object behind the shared        *)
(* pointer.  A composite key is a record [isNull, keys, cr]: keys is      *)
(* CompositeKey::keys(), cr is CompositeKey::challengeResponseKeys(),     *)
(* isNull tells a null QSharedPointer<CompositeKey>.                      *)
(***************************************************************************)
EXTENDS Integers, Sequences, FiniteSets, Bags, TLC

\* ---- bounds -----------------------------------------------------------
\* longest keys() list of an initial database key
MaxKeys == 2
\* longest challengeResponseKeys() list of an initial database key
MaxCR == 1

\* ---- the key kinds (Key::uuid()) ---------------------------------------
PasswordKeyUUID == "PasswordKey"
FileKeyUUID == "FileKey"
ChallengeResponseKeyUUID == "ChallengeResponseKey"
\* a key kind the command does not know (line 225)
OtherKeyUUID == "OtherKey"

\* the values of --set-key-file: no value, and a path
Paths == {"", "new.key"}

NoKey == [kind |-> "none", id |-> 0]

\* QSharedPointer<CompositeKey>::create() (line 196)
EmptyCompositeKey == [isNull |-> FALSE, keys |-> <<>>, cr |-> <<>>]

\* `return {}` (lines 239, 249, 256): a null QSharedPointer<CompositeKey>
NullKey == [isNull |-> TRUE, keys |-> <<>>, cr |-> <<>>]

Range(s) == {s[i] : i \in 1..Len(s)}

\* every key a composite key holds, keys() first
Factors(k) == k.keys \o k.cr

Ids(k) == {f.id : f \in Range(Factors(k))}

Count(f, s) == Cardinality({i \in 1..Len(s) : s[i] = f})

RECURSIVE SeqToBag(_)
SeqToBag(s) == IF s = <<>> THEN EmptyBag ELSE SetToBag({Head(s)}) (+) SeqToBag(Tail(s))

KindCount(kind, s) == Cardinality({i \in 1..Len(s) : s[i].kind = kind})

\* a new object: its identity differs from every live key's
FreshId(used) == CHOOSE n \in 1..(Cardinality(used) + 1) :
                     n \notin used /\ \A m \in 1..(n - 1) : m \in used

\* ---- the request -------------------------------------------------------
Requests == [updatePassword : BOOLEAN, removePassword : BOOLEAN,
             newFileKeyPath : Paths, removeKeyFile : BOOLEAN]

NoRequest == [updatePassword |-> FALSE, removePassword |-> FALSE,
              newFileKeyPath |-> "", removeKeyFile |-> FALSE]

\* the command line: which options are set, and the value of --set-key-file
Options == {o \in [setPassword : BOOLEAN, unsetPassword : BOOLEAN,
                   setKeyFile : BOOLEAN, setKeyFileValue : Paths,
                   unsetKeyFile : BOOLEAN] :
               ~o.setKeyFile => o.setKeyFileValue = ""}

NoOptions == [setPassword |-> FALSE, unsetPassword |-> FALSE, setKeyFile |-> FALSE,
              setKeyFileValue |-> "", unsetKeyFile |-> FALSE]

\* ---- the initial database keys ------------------------------------------
InitialKinds == {PasswordKeyUUID, FileKeyUUID, OtherKeyUUID}

KindLists == UNION {[1..l -> InitialKinds] : l \in 0..MaxKeys}

\* keys() holds the kinds ks, challengeResponseKeys() holds m keys; every key
\* is an object of its own
MakeKey(ks, m) ==
    [isNull |-> FALSE,
     keys |-> [i \in 1..Len(ks) |-> [kind |-> ks[i], id |-> i]],
     cr |-> [i \in 1..m |-> [kind |-> ChallengeResponseKeyUUID, id |-> Len(ks) + i]]]

\* a database that was unlocked holds at least one key
InitialKeys == {MakeKey(ks, m) : ks \in KindLists, m \in 0..MaxCR} \ {EmptyCompositeKey}

VARIABLES
    db,              \* database->key(): the database's current composite key
    pc,              \* position of the running call
    caller,          \* who called getNewDatabaseKey: "direct" or "cli"
    req,             \* the arguments of getNewDatabaseKey
    cur,             \* database->key() on entry of getNewDatabaseKey
    newDatabaseKey,  \* the local newDatabaseKey
    classified,      \* newDatabaseKey after the two loops (line 233)
    passwordKey,     \* the key Utils::getConfirmedPassword returned
    newFileKey,      \* the key FileKey::load filled
    passwordCalls,   \* calls of Utils::getConfirmedPassword in this rotation
    fileCalls,       \* calls of FileKey::load in this rotation
    emptyChecked,    \* line 254 was evaluated in this rotation
    ret,             \* the return value of getNewDatabaseKey
    error,           \* the failure reported on err
    opts,            \* the parsed command line of executeWithDatabase
    entryKey,        \* database->key() on entry of executeWithDatabase
    rotateCalls,     \* calls of getNewDatabaseKey in this command
    saveCalls,       \* calls of database->save in this command
    exitCode         \* the return value of executeWithDatabase

rotVars == <<req, cur, newDatabaseKey, classified, passwordKey, newFileKey,
             passwordCalls, fileCalls, emptyChecked, ret, error>>
cliVars == <<opts, entryKey, rotateCalls, saveCalls, exitCode>>
vars == <<db, pc, caller, rotVars, cliVars>>

\* ---- getNewDatabaseKey, lines 196-233: the classification ----------------

\* CompositeKey::addKey
addKey(k, key) == [k EXCEPT !.keys = Append(@, key)]

\* the old password is kept although a new one is set
KeepPasswordWhenUpdated(r) == ~r.removePassword

\* the password branch tests the key file flag too
KeepPasswordAnyRemoval(r) == ~r.removePassword /\ ~r.removeKeyFile /\ ~r.updatePassword

\* lines 199-210: a password key is kept unless it is removed or replaced
KeepPassword(r) == ~r.removePassword /\ ~r.updatePassword

\* the test of the new path is inverted
KeepFileKeyInverted(r) == ~r.removeKeyFile /\ r.newFileKeyPath # ""

\* lines 212-223: a file key is kept unless it is removed or replaced
KeepFileKey(r) == ~r.removeKeyFile /\ r.newFileKeyPath = ""

\* a key of an unknown kind is dropped
ClassifyKeyDropUnknown(k, key, r) ==
    IF key.kind = PasswordKeyUUID
    THEN IF KeepPassword(r) THEN addKey(k, key) ELSE k
    ELSE IF key.kind = FileKeyUUID
         THEN IF KeepFileKey(r) THEN addKey(k, key) ELSE k
         ELSE k

\* the body of the loop of lines 198-227 for one key
ClassifyKey(k, key, r) ==
    IF key.kind = PasswordKeyUUID
    THEN IF KeepPassword(r) THEN addKey(k, key) ELSE k
    ELSE IF key.kind = FileKeyUUID
         THEN IF KeepFileKey(r) THEN addKey(k, key) ELSE k
         ELSE addKey(k, key)

\* lines 198-227
RECURSIVE KeysLoop(_, _, _)
KeysLoop(k, keys, r) ==
    IF keys = <<>> THEN k ELSE KeysLoop(ClassifyKey(k, Head(keys), r), Tail(keys), r)

\* the second loop compares with the wrong UUID
PassChallengeResponseKeyWrongUUID(k, key) ==
    IF key.kind = PasswordKeyUUID THEN addKey(k, key) ELSE k

\* the body of the loop of lines 229-233 for one key
PassChallengeResponseKey(k, key) ==
    IF key.kind = ChallengeResponseKeyUUID THEN addKey(k, key) ELSE k

\* lines 229-233
RECURSIVE ChallengeResponseLoop(_, _)
ChallengeResponseLoop(k, crs) ==
    IF crs = <<>> THEN k
    ELSE ChallengeResponseLoop(PassChallengeResponseKey(k, Head(crs)), Tail(crs))

\* lines 196-233
Classify(current, r) ==
    ChallengeResponseLoop(KeysLoop(EmptyCompositeKey, current.keys, r), current.cr)

\* the empty check is missing
IsEmptyKeyNever(k) == FALSE

\* line 254
IsEmptyKey(k) == k.keys = <<>>

\* ---- the state machine ------------------------------------------------------

Init ==
    /\ db \in InitialKeys
    /\ pc = "idle"
    /\ caller = "none"
    /\ req = NoRequest
    /\ cur = NullKey
    /\ newDatabaseKey = NullKey
    /\ classified = NullKey
    /\ passwordKey = NoKey
    /\ newFileKey = NoKey
    /\ passwordCalls = 0
    /\ fileCalls = 0
    /\ emptyChecked = FALSE
    /\ ret = NullKey
    /\ error = "none"
    /\ opts = NoOptions
    /\ entryKey = NullKey
    /\ rotateCalls = 0
    /\ saveCalls = 0
    /\ exitCode = "none"

\* no call is running
Quiescent == pc = "idle" \/ (pc = "returned" /\ caller = "direct") \/ pc = "exited"

\* the failure returns the key under construction instead of null
FailPartial(e) ==
    /\ error' = e
    /\ ret' = newDatabaseKey
    /\ pc' = "returned"

\* the failure is reported but the function goes on with its next statement
FailWithoutReturn(e) ==
    /\ error' = e
    /\ ret' = NullKey
    /\ pc' = IF pc = "L235" THEN "L244" ELSE IF pc = "L244" THEN "L254" ELSE "returned"

\* lines 238-239, 248-249, 255-256: report the failure and `return {}`
Fail(e) ==
    /\ error' = e
    /\ ret' = NullKey
    /\ pc' = "returned"

\* the empty check is made right after the loops, before the acquisitions
EnterGetNewDatabaseKeyEarlyCheck(r) ==
    /\ req' = r
    /\ cur' = db
    /\ newDatabaseKey' = Classify(db, r)
    /\ classified' = Classify(db, r)
    /\ passwordKey' = NoKey
    /\ newFileKey' = NoKey
    /\ passwordCalls' = 0
    /\ fileCalls' = 0
    /\ ret' = NullKey
    /\ IF IsEmptyKey(Classify(db, r))
       THEN /\ emptyChecked' = TRUE
            /\ error' = "AllFactorsRemoved"
            /\ pc' = "returned"
       ELSE /\ emptyChecked' = FALSE
            /\ error' = "none"
            /\ pc' = "L235"
    /\ UNCHANGED db

\* lines 189-233: entry of getNewDatabaseKey and its two loops
EnterGetNewDatabaseKey(r) ==
    /\ req' = r
    /\ cur' = db
    /\ newDatabaseKey' = Classify(db, r)
    /\ classified' = Classify(db, r)
    /\ passwordKey' = NoKey
    /\ newFileKey' = NoKey
    /\ passwordCalls' = 0
    /\ fileCalls' = 0
    /\ emptyChecked' = FALSE
    /\ ret' = NullKey
    /\ error' = "none"
    /\ pc' = "L235"
    /\ UNCHANGED db

\* getNewDatabaseKey called with any arguments
CallGetNewDatabaseKey ==
    /\ Quiescent
    /\ \E r \in Requests : EnterGetNewDatabaseKey(r)
    /\ caller' = "direct"
    /\ opts' = NoOptions
    /\ entryKey' = NullKey
    /\ rotateCalls' = 0
    /\ saveCalls' = 0
    /\ exitCode' = "none"

\* lines 235-242: Utils::getConfirmedPassword returns a new key or null
AcquirePassword ==
    /\ pc = "L235"
    /\ IF ~req.updatePassword
       THEN /\ pc' = "L244"
            /\ UNCHANGED <<newDatabaseKey, passwordKey, passwordCalls, ret, error>>
       ELSE /\ passwordCalls' = passwordCalls + 1
            /\ \E ok \in BOOLEAN :
                 IF ok
                 THEN LET key == [kind |-> PasswordKeyUUID,
                                  id |-> FreshId(Ids(db) \cup Ids(newDatabaseKey))]
                      IN /\ passwordKey' = key
                         /\ newDatabaseKey' = addKey(newDatabaseKey, key)
                         /\ pc' = "L244"
                         /\ UNCHANGED <<ret, error>>
                 ELSE /\ Fail("PasswordAcquisitionFailed")
                      /\ UNCHANGED <<newDatabaseKey, passwordKey>>
    /\ UNCHANGED <<db, caller, req, cur, classified, newFileKey, fileCalls, emptyChecked, cliVars>>

\* lines 244-252: FileKey::load fills a new key or fails
LoadFileKey ==
    /\ pc = "L244"
    /\ IF req.newFileKeyPath = ""
       THEN /\ pc' = "L254"
            /\ UNCHANGED <<newDatabaseKey, newFileKey, fileCalls, ret, error>>
       ELSE /\ fileCalls' = fileCalls + 1
            /\ \E ok \in BOOLEAN :
                 IF ok
                 THEN LET key == [kind |-> FileKeyUUID,
                                  id |-> FreshId(Ids(db) \cup Ids(newDatabaseKey))]
                      IN /\ newFileKey' = key
                         /\ newDatabaseKey' = addKey(newDatabaseKey, key)
                         /\ pc' = "L254"
                         /\ UNCHANGED <<ret, error>>
                 ELSE /\ Fail("FileKeyLoadFailed")
                      /\ UNCHANGED <<newDatabaseKey, newFileKey>>
    /\ UNCHANGED <<db, caller, req, cur, classified, passwordKey, passwordCalls, emptyChecked, cliVars>>

\* lines 254-259: the empty check and the return of the new key
CheckEmptyAndReturn ==
    /\ pc = "L254"
    /\ emptyChecked' = TRUE
    /\ IF IsEmptyKey(newDatabaseKey)
       THEN Fail("AllFactorsRemoved")
       ELSE /\ ret' = newDatabaseKey
            /\ pc' = "returned"
            /\ UNCHANGED error
    /\ UNCHANGED <<db, caller, req, cur, newDatabaseKey, classified, passwordKey, newFileKey,
                   passwordCalls, fileCalls, cliVars>>

\* ---- executeWithDatabase ------------------------------------------------------

\* line 140
PasswordConflict(o) == o.setPassword /\ o.unsetPassword
\* the key file options are not checked against each other
KeyFileConflictUnchecked(o) == FALSE

\* line 148
KeyFileConflict(o) == o.setKeyFile /\ o.unsetKeyFile
\* lines 156-158
hasKeyChange(o) == o.setPassword \/ o.setKeyFile \/ o.unsetPassword \/ o.unsetKeyFile

\* lines 161-165: the arguments the command passes to getNewDatabaseKey
RequestOf(o) == [updatePassword |-> o.setPassword, removePassword |-> o.unsetPassword,
                 newFileKeyPath |-> o.setKeyFileValue, removeKeyFile |-> o.unsetKeyFile]

\* lines 132-165 and 174-177: the command up to the call of getNewDatabaseKey
ExecuteWithDatabase ==
    /\ Quiescent
    /\ \E o \in Options :
         /\ opts' = o
         /\ IF PasswordConflict(o) \/ KeyFileConflict(o)
            THEN /\ exitCode' = "EXIT_FAILURE"
                 /\ rotateCalls' = 0
                 /\ pc' = "exited"
                 /\ req' = NoRequest /\ cur' = NullKey /\ newDatabaseKey' = NullKey
                 /\ classified' = NullKey /\ passwordKey' = NoKey /\ newFileKey' = NoKey
                 /\ passwordCalls' = 0 /\ fileCalls' = 0 /\ emptyChecked' = FALSE
                 /\ ret' = NullKey /\ error' = "none"
                 /\ UNCHANGED db
            ELSE IF ~hasKeyChange(o)
                 THEN /\ exitCode' = "EXIT_SUCCESS"
                      /\ rotateCalls' = 0
                      /\ pc' = "exited"
                      /\ req' = NoRequest /\ cur' = NullKey /\ newDatabaseKey' = NullKey
                      /\ classified' = NullKey /\ passwordKey' = NoKey /\ newFileKey' = NoKey
                      /\ passwordCalls' = 0 /\ fileCalls' = 0 /\ emptyChecked' = FALSE
                      /\ ret' = NullKey /\ error' = "none"
                      /\ UNCHANGED db
                 ELSE /\ EnterGetNewDatabaseKey(RequestOf(o))
                      /\ rotateCalls' = 1
                      /\ exitCode' = "none"
    /\ caller' = "cli"
    /\ entryKey' = db
    /\ saveCalls' = 0

\* Database::setKey
setKey(database, key) == key

\* lines 166-187: the command after getNewDatabaseKey returned
ExecuteAfterRotation ==
    /\ pc = "returned"
    /\ caller = "cli"
    /\ IF ret.isNull
       THEN /\ exitCode' = "EXIT_FAILURE"
            /\ UNCHANGED <<db, saveCalls>>
       ELSE /\ db' = setKey(db, ret)
            /\ saveCalls' = saveCalls + 1
            /\ \E saved \in BOOLEAN :
                 exitCode' = IF saved THEN "EXIT_SUCCESS" ELSE "EXIT_FAILURE"
    /\ pc' = "exited"
    /\ UNCHANGED <<caller, rotVars, opts, entryKey, rotateCalls>>

Next ==
    \/ CallGetNewDatabaseKey
    \/ AcquirePassword
    \/ LoadFileKey
    \/ CheckEmptyAndReturn
    \/ ExecuteWithDatabase
    \/ ExecuteAfterRotation

Spec == Init /\ [][Next]_vars

TypeOK ==
    /\ pc \in {"idle", "L235", "L244", "L254", "returned", "exited"}
    /\ caller \in {"none", "direct", "cli"}
    /\ req \in Requests
    /\ ~db.isNull
    /\ error \in {"none", "PasswordAcquisitionFailed", "FileKeyLoadFailed", "AllFactorsRemoved"}
    /\ exitCode \in {"none", "EXIT_SUCCESS", "EXIT_FAILURE"}

\* ---- properties ----------------------------------------------------------------

\* getNewDatabaseKey has returned in the current call or command
Done == pc = "returned" \/ (pc = "exited" /\ rotateCalls = 1)

\* getNewDatabaseKey has returned a key
Succeeded == Done /\ ~ret.isNull

AcquisitionFailed == error \in {"PasswordAcquisitionFailed", "FileKeyLoadFailed"}

\* C1: getNewDatabaseKey never returns a key without factors; when the loops
\* keep nothing and no key is acquired the result is null, with the
\* AllFactorsRemoved failure when no acquisition was asked for; and the
\* database's key, replaced only by a returned key, is never without factors.
C1_NeverZeroFactors ==
    /\ Succeeded => Len(Factors(ret)) > 0
    /\ (Done /\ Factors(classified) = <<>> /\ passwordKey = NoKey /\ newFileKey = NoKey)
          => ret.isNull
    /\ (Done /\ Factors(classified) = <<>> /\ ~req.updatePassword /\ req.newFileKeyPath = "")
          => (ret.isNull /\ error = "AllFactorsRemoved")
    /\ ~db.isNull /\ Len(Factors(db)) > 0

C1_Witness ==
    /\ Done
    /\ Len(Factors(cur)) > 0
    /\ Factors(classified) = <<>>
    /\ error = "AllFactorsRemoved"
    /\ ret.isNull

\* C2: every challenge-response key of the current key is in every returned
\* key, unchanged, whatever the request is.
C2_ChallengeResponsePassthrough ==
    Succeeded =>
        \A f \in Range(Factors(cur)) :
            f.kind = ChallengeResponseKeyUUID => Count(f, Factors(ret)) >= 1

C2_Witness ==
    /\ Succeeded
    /\ cur.cr # <<>>
    /\ req.updatePassword
    /\ req.removeKeyFile
    /\ \A f \in Range(cur.cr) : f \in Range(Factors(ret))

AllFalse(r) ==
    ~r.updatePassword /\ ~r.removePassword /\ r.newFileKeyPath = "" /\ ~r.removeKeyFile

\* C3: a call with no flag and no path returns the factors of the current
\* key, each as often as the current key holds it, and acquires nothing.
C3_NoOp ==
    (Done /\ AllFalse(req)) =>
        /\ ~ret.isNull
        /\ Factors(ret) = Factors(cur)
        /\ SeqToBag(Factors(ret)) = SeqToBag(Factors(cur))
        /\ Len(Factors(ret)) = Len(Factors(cur))
        /\ passwordCalls = 0
        /\ fileCalls = 0
        /\ passwordKey = NoKey
        /\ newFileKey = NoKey

C3_Witness ==
    /\ Done
    /\ AllFalse(req)
    /\ cur.cr # <<>>
    /\ Len(cur.keys) >= 2
    /\ ~ret.isNull

\* the case of C4: one password key, a new password asked for and acquired,
\* and a key returned
C4_Case ==
    /\ Succeeded
    /\ KindCount(PasswordKeyUUID, Factors(cur)) = 1
    /\ req.updatePassword
    /\ passwordKey # NoKey

C4_OnePassword ==
    /\ KindCount(PasswordKeyUUID, Factors(ret)) = 1
    /\ passwordKey.kind = PasswordKeyUUID
    /\ Count(passwordKey, Factors(ret)) = 1
    /\ Count(passwordKey, Factors(cur)) = 0

\* C4 as stated: in that case the returned key has exactly one password key,
\* the new one, and every key of the current key that is not a password key.
C4_Original ==
    C4_Case =>
        /\ C4_OnePassword
        /\ \A f \in Range(Factors(cur)) :
              f.kind # PasswordKeyUUID => Count(f, Factors(ret)) = Count(f, Factors(cur))

\* C4: in that case the returned key has exactly one password key, the new
\* one; it has every key of the current key that is neither a password key
\* nor a file key, and the file keys of the current key exactly when the
\* request neither removes nor replaces the file key.
C4_ReplacePassword ==
    C4_Case =>
        /\ C4_OnePassword
        /\ \A f \in Range(Factors(cur)) :
              /\ f.kind \notin {PasswordKeyUUID, FileKeyUUID}
                    => Count(f, Factors(ret)) = Count(f, Factors(cur))
              /\ (f.kind = FileKeyUUID /\ ~req.removeKeyFile /\ req.newFileKeyPath = "")
                    => Count(f, Factors(ret)) = Count(f, Factors(cur))
              /\ (f.kind = FileKeyUUID /\ (req.removeKeyFile \/ req.newFileKeyPath # ""))
                    => Count(f, Factors(ret)) = 0

C4_Witness ==
    /\ C4_Case
    /\ req.removeKeyFile
    /\ KindCount(FileKeyUUID, Factors(cur)) = 1
    /\ KindCount(FileKeyUUID, Factors(ret)) = 0
    /\ KindCount(PasswordKeyUUID, Factors(ret)) = 1

\* C5: while getNewDatabaseKey runs and when it has returned the database's
\* key is the one it had on entry; the call returns null with a failure, or
\* the finished key: the kept keys and every key that was asked for.
C5_NoMutationNoPartial ==
    /\ pc \in {"L235", "L244", "L254", "returned"} => db = cur
    /\ Done =>
          \/ ret.isNull /\ error # "none"
          \/ /\ ~ret.isNull
             /\ error = "none"
             /\ emptyChecked
             /\ ret = newDatabaseKey
             /\ req.updatePassword => Count(passwordKey, ret.keys) = 1
             /\ req.newFileKeyPath # "" => Count(newFileKey, ret.keys) = 1
             /\ \A f \in Range(Factors(classified)) : f \in Range(Factors(ret))

C5_Witness ==
    /\ pc = "returned"
    /\ error = "FileKeyLoadFailed"
    /\ newDatabaseKey.keys # <<>>
    /\ ret.isNull
    /\ db = cur

\* C6: the empty check is made after the acquisitions: a call whose loops
\* keep nothing and whose acquisitions succeed returns the acquired keys, and
\* AllFactorsRemoved is reported only after every acquisition asked for was made.
C6_EmptyCheckLast ==
    /\ (Done /\ IsEmptyKey(classified) /\ ~AcquisitionFailed
             /\ (req.updatePassword \/ req.newFileKeyPath # ""))
          => /\ ~ret.isNull
             /\ error = "none"
             /\ ret.keys = (IF req.updatePassword THEN <<passwordKey>> ELSE <<>>)
                              \o (IF req.newFileKeyPath # "" THEN <<newFileKey>> ELSE <<>>)
    /\ emptyChecked =>
          /\ Done
          /\ passwordCalls = (IF req.updatePassword THEN 1 ELSE 0)
          /\ fileCalls = (IF req.newFileKeyPath # "" THEN 1 ELSE 0)
    /\ error = "AllFactorsRemoved" => (emptyChecked /\ newDatabaseKey.keys = <<>>)

C6_Witness ==
    /\ Done
    /\ Len(cur.keys) = 1 /\ cur.keys[1].kind = PasswordKeyUUID /\ cur.cr = <<>>
    /\ req.removePassword /\ ~req.updatePassword
    /\ req.newFileKeyPath # "" /\ ~req.removeKeyFile
    /\ classified = EmptyCompositeKey
    /\ ~ret.isNull
    /\ ret.keys = <<newFileKey>>
    /\ newFileKey.kind = FileKeyUUID

\* C7: a failed password acquisition ends the call with
\* PasswordAcquisitionFailed and null, with no file load and no empty check;
\* a failed file load ends it with FileKeyLoadFailed and null; no acquisition
\* is made twice.
C7_AcquisitionFailure ==
    /\ (pc # "L235" /\ passwordCalls >= 1 /\ passwordKey = NoKey)
          => /\ Done
             /\ error = "PasswordAcquisitionFailed"
             /\ ret.isNull
             /\ fileCalls = 0
             /\ ~emptyChecked
    /\ (pc # "L244" /\ fileCalls >= 1 /\ newFileKey = NoKey)
          => /\ Done
             /\ error = "FileKeyLoadFailed"
             /\ ret.isNull
             /\ ~emptyChecked
    /\ passwordCalls <= 1
    /\ fileCalls <= 1

C7_Witness ==
    /\ Done
    /\ error = "PasswordAcquisitionFailed"
    /\ req.newFileKeyPath # ""
    /\ classified.keys # <<>>
    /\ ret.isNull
    /\ fileCalls = 0

\* the request keeps the key f of the current key
Survives(f, r) ==
    \/ f.kind \notin {PasswordKeyUUID, FileKeyUUID}
    \/ f.kind = PasswordKeyUUID /\ ~r.removePassword /\ ~r.updatePassword
    \/ f.kind = FileKeyUUID /\ ~r.removeKeyFile /\ r.newFileKeyPath = ""

\* C8: a key of the current key that is neither a password key nor a file
\* key is kept for every request, and every kept key of the current key is
\* in a returned key exactly once.
C8_ExactlyOnce ==
    /\ pc \in {"L235", "L244", "L254"} =>
          \A f \in Range(Factors(cur)) :
              f.kind \notin {PasswordKeyUUID, FileKeyUUID} => Count(f, Factors(newDatabaseKey)) = 1
    /\ Succeeded =>
          \A f \in Range(Factors(cur)) : Survives(f, req) => Count(f, Factors(ret)) = 1

C8_Witness ==
    /\ Succeeded
    /\ req.removePassword
    /\ cur.cr # <<>>
    /\ \E f \in Range(cur.keys) : f.kind = OtherKeyUUID /\ Count(f, Factors(ret)) = 1
    /\ \E f \in Range(cur.keys) : f.kind = PasswordKeyUUID

OnlyRemoveKeyFile(r) ==
    ~r.updatePassword /\ ~r.removePassword /\ r.newFileKeyPath = "" /\ r.removeKeyFile

OnlyRemovePassword(r) ==
    ~r.updatePassword /\ r.removePassword /\ r.newFileKeyPath = "" /\ ~r.removeKeyFile

\* C9: removing the file key of a key that has none, or the password of a key
\* that has none, with no other change, returns exactly the factors of the
\* current key.
C9_IdempotentRemoval ==
    /\ (Done /\ OnlyRemoveKeyFile(req) /\ KindCount(FileKeyUUID, Factors(cur)) = 0)
          => (~ret.isNull /\ SeqToBag(Factors(ret)) = SeqToBag(Factors(cur)))
    /\ (Done /\ OnlyRemovePassword(req) /\ KindCount(PasswordKeyUUID, Factors(cur)) = 0)
          => (~ret.isNull /\ SeqToBag(Factors(ret)) = SeqToBag(Factors(cur)))

C9_Witness ==
    /\ Done
    /\ OnlyRemoveKeyFile(req)
    /\ KindCount(FileKeyUUID, Factors(cur)) = 0
    /\ KindCount(PasswordKeyUUID, Factors(cur)) = 1
    /\ ~ret.isNull

\* C10: in executeWithDatabase the key is replaced and save is called only
\* after getNewDatabaseKey returned a key; conflicting options fail before any
\* rotation, a failed rotation fails the command, both with the key unchanged
\* and no save; no key option succeeds without rotation or save; and the
\* request passed never has update and remove of the same factor.
C10_Command ==
    caller = "cli" =>
        /\ ((opts.setPassword /\ opts.unsetPassword) \/ (opts.setKeyFile /\ opts.unsetKeyFile))
              => /\ pc = "exited"
                 /\ exitCode = "EXIT_FAILURE"
                 /\ rotateCalls = 0
                 /\ saveCalls = 0
                 /\ db = entryKey
        /\ (pc = "exited" /\ rotateCalls = 1 /\ ret.isNull)
              => /\ exitCode = "EXIT_FAILURE"
                 /\ saveCalls = 0
                 /\ db = entryKey
        /\ (~opts.setPassword /\ ~opts.unsetPassword /\ ~opts.setKeyFile /\ ~opts.unsetKeyFile)
              => /\ pc = "exited"
                 /\ exitCode = "EXIT_SUCCESS"
                 /\ rotateCalls = 0
                 /\ saveCalls = 0
                 /\ db = entryKey
        /\ (saveCalls > 0 \/ db # entryKey)
              => /\ pc = "exited"
                 /\ rotateCalls = 1
                 /\ ~ret.isNull
                 /\ db = ret
                 /\ saveCalls = 1
        /\ pc # "exited" => (db = entryKey /\ saveCalls = 0)
        /\ rotateCalls >= 1
              => /\ ~(req.updatePassword /\ req.removePassword)
                 /\ ~(req.newFileKeyPath # "" /\ req.removeKeyFile)

C10_Witness ==
    /\ caller = "cli"
    /\ pc = "exited"
    /\ rotateCalls = 1
    /\ ret.isNull
    /\ error = "AllFactorsRemoved"
    /\ exitCode = "EXIT_FAILURE"
    /\ db = entryKey
    /\ saveCalls = 0
====
